---- MODULE Spec2Model ----
(***************************************************************************)
(* Model of the legality rules engine of the NYC curb utilization tool     *)
(* (app/rules_engine.py) and of the data it consumes (app/schemas.py).     *)
(*                                                                         *)
(* Conventions                                                             *)
(*   - an Optional value is a sequence of length at most one: None is the  *)
(*     empty sequence and a present value v is <<v>>;                      *)
(*   - a Python dict is a function; dict.get(key, default) is Get;         *)
(*   - a reason code is the sequence of the words of the Python string,    *)
(*     the "_" separators included, so that str.endswith is computed on    *)
(*     the text of the code and not looked up in a table;                  *)
(*   - a confidence is kept in hundredths (0.95 is 95);                    *)
(*   - of a FrameContext only frame_id and timestamp_utc.hour are kept;    *)
(*     the engine reads only zone_type of a ZoneDefinition, the zone       *)
(*     analyzer its polygon as well;                                       *)
(*   - pixel coordinates are integers and a polygon is convex, so that     *)
(*     containment is decided by the side of the point on every edge.      *)
(***************************************************************************)
EXTENDS Integers, Sequences, FiniteSets, TLC

VARIABLES
    rules_path,   \* RulesEngine.rules_path: the file found at that path
    rules,        \* RulesEngine.rules
    op,           \* the position of the caller of the engine
    frame,        \* the arguments of the call ...
    observation,
    zone,
    decision      \* ... and what it returned

VARIABLES
    calls,        \* the calls in progress on the shared engine
    locals        \* the local variables of each activation

VARIABLES
    request,      \* the AnalyzeRequest posted to /analyze
    response,     \* the AnalyzeResponse returned
    decisions,    \* the argument of summarize_decisions ...
    summary       \* ... and what it returned

VARIABLES
    _zone_polygons,  \* ZoneAnalyzer._zone_polygons
    zones,           \* the argument of the latest load_zones
    detections,      \* the argument of assign_detections_to_zones ...
    assignments,     \* ... and what it returned
    observations     \* what detections_to_observations returned

VARIABLES
    image_request,   \* the ImageAnalyzeRequest posted to /analyze/image
    cv_image,        \* the uploaded image: what the detectors find in it
    image_response   \* the ImageAnalyzeResponse returned

VARIABLES
    image_calls,     \* the /analyze/image requests in progress, their locals
    running          \* the request the event loop is running, if any

engineVars == <<rules_path, rules, op, frame, observation, zone, decision>>

callVars == <<calls, locals>>

apiVars == <<request, response, decisions, summary>>

zoneVars == <<_zone_polygons, zones, detections, assignments, observations>>

imageVars == <<image_request, cv_image, image_response>>

loopVars == <<image_calls, running>>

vars == <<engineVars, callVars, apiVars, zoneVars, imageVars, loopVars>>

\* the variables a subsystem leaves alone
outsideEngine == <<callVars, apiVars, zoneVars, imageVars, loopVars>>

outsideCalls == <<apiVars, zoneVars, imageVars, loopVars>>

outsideApi == <<callVars, zoneVars, imageVars, loopVars>>

outsideZones == <<callVars, apiVars, imageVars, loopVars>>

outsideImage == <<callVars, apiVars, loopVars>>

outsideLoop == <<callVars, apiVars, imageVars>>

----------------------------------------------------------------------------
(* Bounds of the model *)

\* track ids are 1..MaxTrack
MaxTrack == 2

\* the calls made concurrently on one engine are 1..MaxCalls
MaxCalls == 2

\* an AnalyzeRequest carries at most MaxBatch observations
MaxBatch == 2

\* summarize_decisions is given at most MaxDecisions decisions
MaxDecisions == 3

\* load_zones is given at most MaxZones zones
MaxZones == 2

\* assign_detections_to_zones is given at most MaxDetections detections
MaxDetections == 2

\* the /analyze/image requests in progress together are 1..MaxRequests
MaxRequests == 2

\* dwell times are sampled within MaxDelta seconds of every dwell limit
MaxDelta == 1

----------------------------------------------------------------------------
(* app/schemas.py *)

None == <<>>

VehicleType == {"passenger", "commercial", "bus", "bike", "scooter", "other"}

LaneType == {"travel", "bus", "bike", "parking", "unknown"}

ZoneType == {"parking", "no_parking", "bus_lane", "bike_lane",
             "loading_zone", "fire_hydrant", "double_parking", "travel_lane"}

DecisionStatus == {"legal", "likely_illegal", "uncertain", "in_transit"}

LegalityDecision(track_id, status, reason_codes, confidence) ==
    [track_id |-> track_id, status |-> status,
     reason_codes |-> reason_codes, confidence |-> confidence]

DetectedClass == {"car", "truck", "bus", "motorcycle", "bicycle", "person"}

COCO_TO_VEHICLE_TYPE ==
    [car |-> "passenger", truck |-> "commercial", bus |-> "bus",
     motorcycle |-> "scooter", bicycle |-> "bike", person |-> "other"]

\* ZONE_TO_LANE_TYPE with double_parking taken for a place at the curb
ZONE_TO_LANE_TYPE_DoubleParkingAtCurb ==
    [parking |-> "parking", no_parking |-> "parking", bus_lane |-> "bus",
     bike_lane |-> "bike", loading_zone |-> "parking",
     fire_hydrant |-> "parking", double_parking |-> "parking",
     travel_lane |-> "travel"]

ZONE_TO_LANE_TYPE ==
    [parking |-> "parking", no_parking |-> "parking", bus_lane |-> "bus",
     bike_lane |-> "bike", loading_zone |-> "parking",
     fire_hydrant |-> "parking", double_parking |-> "travel",
     travel_lane |-> "travel"]

----------------------------------------------------------------------------
(* Python built-ins used by the engine *)

\* dict.get(key, default)
Get(dict, key, default) == IF key \in DOMAIN dict THEN dict[key] ELSE default

\* x in list
Contains(list, x) == \E i \in 1..Len(list) : list[i] = x

\* str.endswith, on the words of the string
EndsWith(code, suffix) ==
    /\ Len(code) >= Len(suffix)
    /\ SubSeq(code, Len(code) - Len(suffix) + 1, Len(code)) = suffix

\* the words of the string literals of rules_engine.py
Words_double_parking_detected == <<"double", "_", "parking", "_", "detected">>
Words_critical_obstruction == <<"critical", "_", "obstruction">>
Words_dwell_time_exceeded == <<"dwell", "_", "time", "_", "exceeded">>
Words_overnight_commercial_restriction ==
    <<"overnight", "_", "commercial", "_", "restriction">>
Words_no_parking_zone_violation ==
    <<"no", "_", "parking", "_", "zone", "_", "violation">>
Words_fire_hydrant_zone_violation ==
    <<"fire", "_", "hydrant", "_", "zone", "_", "violation">>
Words_travel_lane_violation == <<"travel", "_", "lane", "_", "violation">>
Words_bus_lane_occupied == <<"bus", "_", "lane", "_", "occupied">>
Words_bike_lane_occupied == <<"bike", "_", "lane", "_", "occupied">>
Words_loading_zone_passenger_overstay ==
    <<"loading", "_", "zone", "_", "passenger", "_", "overstay">>
Words_lane_occupied == <<"lane", "_", "occupied">>
Words__occupied == <<"_", "occupied">>

\* f"{observation.lane_type}_lane_occupied"
LaneOccupiedCode(lane_type) == <<lane_type, "_">> \o Words_lane_occupied

----------------------------------------------------------------------------
(* RulesEngine construction: the configuration document *)

EmptyDict == <<>>

DefaultDwellLimit == 900

\* The files that may be found at rules_path.  A file that exists is
\* readable when open() and yaml.safe_load() succeed on it (they raise on a
\* directory, on a file without read permission, on malformed YAML); its
\* document is what yaml.safe_load returns: None for an empty file, else a
\* mapping.
ConfigSources ==
    << [exists |-> FALSE, readable |-> FALSE, document |-> None],
       [exists |-> TRUE, readable |-> TRUE, document |-> None],
       [exists |-> TRUE, readable |-> TRUE, document |-> <<[version |-> 1]>>],
       [exists |-> TRUE, readable |-> TRUE,
        document |-> <<[dwell_time_limits |-> EmptyDict]>>],
       [exists |-> TRUE, readable |-> TRUE,
        document |-> <<[dwell_time_limits |->
                          [passenger |-> 600, commercial |-> 1800]]>>],
       [exists |-> TRUE, readable |-> FALSE, document |-> None] >>

\* RulesEngine._load_rules raises: no handler surrounds open and safe_load
LoadRaises(source) == source.exists /\ ~source.readable

\* RulesEngine._load_rules, when it returns
_load_rules(source) ==
    IF ~source.exists
    THEN EmptyDict
    ELSE IF source.document = None THEN EmptyDict ELSE source.document[1]

----------------------------------------------------------------------------
(* RulesEngine.evaluate *)

\* self.rules.get("dwell_time_limits", {}).get(vehicle_type, 900)
DwellLimit(r, vehicle_type) ==
    Get(Get(r, "dwell_time_limits", EmptyDict), vehicle_type, DefaultDwellLimit)

\* Overnight with the upper border included
Overnight_Inclusive(f) == f.timestamp_utc.hour >= 0 /\ f.timestamp_utc.hour <= 6

\* frame.timestamp_utc.hour >= 0 and frame.timestamp_utc.hour < 6
Overnight(f) == f.timestamp_utc.hour >= 0 /\ f.timestamp_utc.hour < 6

\* BaseReasonCodes with the dwell check made before the lane check
BaseReasonCodes_DwellBeforeLane(r, f, obs) ==
    LET dwell_limit == Get(Get(r, "dwell_time_limits", EmptyDict),
                           obs.vehicle_type, DefaultDwellLimit)
        c1 == IF obs.is_double_parked
              THEN <<Words_double_parking_detected>> ELSE <<>>
        c2 == IF obs.is_obstructing
              THEN Append(c1, Words_critical_obstruction) ELSE c1
        c3 == IF obs.dwell_time_seconds > dwell_limit
              THEN Append(c2, Words_dwell_time_exceeded) ELSE c2
        c4 == IF obs.lane_type \in {"bus", "bike"}
              THEN Append(c3, LaneOccupiedCode(obs.lane_type)) ELSE c3
        c5 == IF f.timestamp_utc.hour >= 0 /\ f.timestamp_utc.hour < 6
                 /\ obs.vehicle_type = "commercial"
              THEN Append(c4, Words_overnight_commercial_restriction) ELSE c4
    IN  c5

\* BaseReasonCodes with the lane check exempting the vehicle the lane is for
BaseReasonCodes_OwnLaneExempt(r, f, obs) ==
    LET dwell_limit == Get(Get(r, "dwell_time_limits", EmptyDict),
                           obs.vehicle_type, DefaultDwellLimit)
        c1 == IF obs.is_double_parked
              THEN <<Words_double_parking_detected>> ELSE <<>>
        c2 == IF obs.is_obstructing
              THEN Append(c1, Words_critical_obstruction) ELSE c1
        c3 == IF obs.lane_type \in {"bus", "bike"}
                 /\ obs.vehicle_type # obs.lane_type
              THEN Append(c2, LaneOccupiedCode(obs.lane_type)) ELSE c2
        c4 == IF obs.dwell_time_seconds > dwell_limit
              THEN Append(c3, Words_dwell_time_exceeded) ELSE c3
        c5 == IF f.timestamp_utc.hour >= 0 /\ f.timestamp_utc.hour < 6
                 /\ obs.vehicle_type = "commercial"
              THEN Append(c4, Words_overnight_commercial_restriction) ELSE c4
    IN  c5

\* BaseReasonCodes with ">=" for the ">" of the dwell check
BaseReasonCodes_DwellInclusive(r, f, obs) ==
    LET dwell_limit == Get(Get(r, "dwell_time_limits", EmptyDict),
                           obs.vehicle_type, DefaultDwellLimit)
        c1 == IF obs.is_double_parked
              THEN <<Words_double_parking_detected>> ELSE <<>>
        c2 == IF obs.is_obstructing
              THEN Append(c1, Words_critical_obstruction) ELSE c1
        c3 == IF obs.lane_type \in {"bus", "bike"}
              THEN Append(c2, LaneOccupiedCode(obs.lane_type)) ELSE c2
        c4 == IF obs.dwell_time_seconds >= dwell_limit
              THEN Append(c3, Words_dwell_time_exceeded) ELSE c3
        c5 == IF f.timestamp_utc.hour >= 0 /\ f.timestamp_utc.hour < 6
                 /\ obs.vehicle_type = "commercial"
              THEN Append(c4, Words_overnight_commercial_restriction) ELSE c4
    IN  c5

\* the reason codes collected by evaluate, in the order of the appends
BaseReasonCodes(r, f, obs) ==
    LET dwell_limit == DwellLimit(r, obs.vehicle_type)
        c1 == IF obs.is_double_parked
              THEN <<Words_double_parking_detected>> ELSE <<>>
        c2 == IF obs.is_obstructing
              THEN Append(c1, Words_critical_obstruction) ELSE c1
        c3 == IF obs.lane_type \in {"bus", "bike"}
              THEN Append(c2, LaneOccupiedCode(obs.lane_type)) ELSE c2
        c4 == IF obs.dwell_time_seconds > dwell_limit
              THEN Append(c3, Words_dwell_time_exceeded) ELSE c3
        c5 == IF Overnight(f) /\ obs.vehicle_type = "commercial"
              THEN Append(c4, Words_overnight_commercial_restriction) ELSE c4
    IN  c5

\* BaseStatus with "and" for the "or" of the critical test
BaseStatus_BothCritical(reason_codes) ==
    IF reason_codes = <<>>
    THEN [status |-> "legal", confidence |-> 95]
    ELSE IF /\ Contains(reason_codes, Words_critical_obstruction)
            /\ Contains(reason_codes, Words_double_parking_detected)
    THEN [status |-> "likely_illegal", confidence |-> 92]
    ELSE IF \E i \in 1..Len(reason_codes) :
                EndsWith(reason_codes[i], Words_lane_occupied)
    THEN [status |-> "likely_illegal", confidence |-> 88]
    ELSE [status |-> "uncertain", confidence |-> 75]

\* BaseStatus with the lane test made before the critical test
BaseStatus_LaneFirst(reason_codes) ==
    IF reason_codes = <<>>
    THEN [status |-> "legal", confidence |-> 95]
    ELSE IF \E i \in 1..Len(reason_codes) :
                EndsWith(reason_codes[i], Words_lane_occupied)
    THEN [status |-> "likely_illegal", confidence |-> 88]
    ELSE IF \/ Contains(reason_codes, Words_critical_obstruction)
            \/ Contains(reason_codes, Words_double_parking_detected)
    THEN [status |-> "likely_illegal", confidence |-> 92]
    ELSE [status |-> "uncertain", confidence |-> 75]

\* BaseStatus with the lane test an equality instead of a suffix test
BaseStatus_ExactMatch(reason_codes) ==
    IF reason_codes = <<>>
    THEN [status |-> "legal", confidence |-> 95]
    ELSE IF \/ Contains(reason_codes, Words_critical_obstruction)
            \/ Contains(reason_codes, Words_double_parking_detected)
    THEN [status |-> "likely_illegal", confidence |-> 92]
    ELSE IF \E i \in 1..Len(reason_codes) :
                reason_codes[i] = Words_lane_occupied
    THEN [status |-> "likely_illegal", confidence |-> 88]
    ELSE [status |-> "uncertain", confidence |-> 75]

\* the status and confidence evaluate derives from its reason codes
BaseStatus(reason_codes) ==
    IF reason_codes = <<>>
    THEN [status |-> "legal", confidence |-> 95]
    ELSE IF \/ Contains(reason_codes, Words_critical_obstruction)
            \/ Contains(reason_codes, Words_double_parking_detected)
    THEN [status |-> "likely_illegal", confidence |-> 92]
    ELSE IF \E i \in 1..Len(reason_codes) :
                EndsWith(reason_codes[i], Words_lane_occupied)
    THEN [status |-> "likely_illegal", confidence |-> 88]
    ELSE [status |-> "uncertain", confidence |-> 75]

evaluate(r, f, obs) ==
    LET reason_codes == BaseReasonCodes(r, f, obs)
        derived == BaseStatus(reason_codes)
    IN  LegalityDecision(obs.track_id, derived.status, reason_codes,
                         derived.confidence)

----------------------------------------------------------------------------
(* RulesEngine.evaluate_with_zone *)

\* ZoneReasonCodes without the "not in reason_codes" tests
ZoneReasonCodes_NoDedup(r, obs, z, base_codes) ==
    LET c1 == IF z.zone_type = "no_parking"
              THEN Append(base_codes, Words_no_parking_zone_violation)
              ELSE base_codes
        c2 == IF z.zone_type = "fire_hydrant"
              THEN Append(c1, Words_fire_hydrant_zone_violation) ELSE c1
        c3 == IF z.zone_type = "travel_lane"
              THEN Append(c2, Words_travel_lane_violation) ELSE c2
        c4 == IF z.zone_type = "bus_lane" /\ obs.vehicle_type # "bus"
              THEN Append(c3, Words_bus_lane_occupied) ELSE c3
        c5 == IF z.zone_type = "bike_lane" /\ obs.vehicle_type # "bike"
              THEN Append(c4, Words_bike_lane_occupied) ELSE c4
        dwell_limit == Get(Get(r, "dwell_time_limits", EmptyDict),
                           "passenger", DefaultDwellLimit)
        c6 == IF /\ z.zone_type = "loading_zone"
                 /\ obs.vehicle_type = "passenger"
                 /\ obs.dwell_time_seconds > dwell_limit
              THEN Append(c5, Words_loading_zone_passenger_overstay) ELSE c5
    IN  c6

\* ZoneReasonCodes with each "not in reason_codes" test looking for the
\* code of the other lane
ZoneReasonCodes_WrongDedup(r, obs, z, base_codes) ==
    LET c1 == IF z.zone_type = "no_parking"
              THEN Append(base_codes, Words_no_parking_zone_violation)
              ELSE base_codes
        c2 == IF z.zone_type = "fire_hydrant"
              THEN Append(c1, Words_fire_hydrant_zone_violation) ELSE c1
        c3 == IF z.zone_type = "travel_lane"
              THEN Append(c2, Words_travel_lane_violation) ELSE c2
        c4 == IF /\ z.zone_type = "bus_lane" /\ obs.vehicle_type # "bus"
                 /\ ~Contains(c3, Words_bike_lane_occupied)
              THEN Append(c3, Words_bus_lane_occupied) ELSE c3
        c5 == IF /\ z.zone_type = "bike_lane" /\ obs.vehicle_type # "bike"
                 /\ ~Contains(c4, Words_bus_lane_occupied)
              THEN Append(c4, Words_bike_lane_occupied) ELSE c4
        dwell_limit == Get(Get(r, "dwell_time_limits", EmptyDict),
                           "passenger", DefaultDwellLimit)
        c6 == IF /\ z.zone_type = "loading_zone"
                 /\ obs.vehicle_type = "passenger"
                 /\ obs.dwell_time_seconds > dwell_limit
              THEN Append(c5, Words_loading_zone_passenger_overstay) ELSE c5
    IN  c6

\* ZoneReasonCodes starting from an empty list: the zone's codes only
ZoneReasonCodes_ZoneOnly(r, obs, z, base_codes) ==
    LET c1 == IF z.zone_type = "no_parking"
              THEN <<Words_no_parking_zone_violation>>
              ELSE <<>>
        c2 == IF z.zone_type = "fire_hydrant"
              THEN Append(c1, Words_fire_hydrant_zone_violation) ELSE c1
        c3 == IF z.zone_type = "travel_lane"
              THEN Append(c2, Words_travel_lane_violation) ELSE c2
        c4 == IF /\ z.zone_type = "bus_lane" /\ obs.vehicle_type # "bus"
                 /\ ~Contains(c3, Words_bus_lane_occupied)
              THEN Append(c3, Words_bus_lane_occupied) ELSE c3
        c5 == IF /\ z.zone_type = "bike_lane" /\ obs.vehicle_type # "bike"
                 /\ ~Contains(c4, Words_bike_lane_occupied)
              THEN Append(c4, Words_bike_lane_occupied) ELSE c4
        dwell_limit == Get(Get(r, "dwell_time_limits", EmptyDict),
                           "passenger", DefaultDwellLimit)
        c6 == IF /\ z.zone_type = "loading_zone"
                 /\ obs.vehicle_type = "passenger"
                 /\ obs.dwell_time_seconds > dwell_limit
              THEN Append(c5, Words_loading_zone_passenger_overstay) ELSE c5
    IN  c6

\* the zone-specific rules: the codes appended to the base codes
ZoneReasonCodes(r, obs, z, base_codes) ==
    LET c1 == IF z.zone_type = "no_parking"
              THEN Append(base_codes, Words_no_parking_zone_violation)
              ELSE base_codes
        c2 == IF z.zone_type = "fire_hydrant"
              THEN Append(c1, Words_fire_hydrant_zone_violation) ELSE c1
        c3 == IF z.zone_type = "travel_lane"
              THEN Append(c2, Words_travel_lane_violation) ELSE c2
        c4 == IF /\ z.zone_type = "bus_lane" /\ obs.vehicle_type # "bus"
                 /\ ~Contains(c3, Words_bus_lane_occupied)
              THEN Append(c3, Words_bus_lane_occupied) ELSE c3
        c5 == IF /\ z.zone_type = "bike_lane" /\ obs.vehicle_type # "bike"
                 /\ ~Contains(c4, Words_bike_lane_occupied)
              THEN Append(c4, Words_bike_lane_occupied) ELSE c4
        dwell_limit == Get(Get(r, "dwell_time_limits", EmptyDict),
                           "passenger", DefaultDwellLimit)
        c6 == IF /\ z.zone_type = "loading_zone"
                 /\ obs.vehicle_type = "passenger"
                 /\ obs.dwell_time_seconds > dwell_limit
              THEN Append(c5, Words_loading_zone_passenger_overstay) ELSE c5
    IN  c6

\* CriticalCodes without the travel lane violation
CriticalCodes_NoTravelLane ==
    <<Words_fire_hydrant_zone_violation, Words_no_parking_zone_violation,
      Words_double_parking_detected, Words_critical_obstruction>>

CriticalCodes ==
    <<Words_fire_hydrant_zone_violation, Words_no_parking_zone_violation,
      Words_travel_lane_violation, Words_double_parking_detected,
      Words_critical_obstruction>>

\* ZoneStatus with a vehicle in a travel lane marked in_transit
ZoneStatus_InTransit(reason_codes) ==
    IF reason_codes = <<>>
    THEN [status |-> "legal", confidence |-> 95]
    ELSE IF Contains(reason_codes, Words_travel_lane_violation)
    THEN [status |-> "in_transit", confidence |-> 92]
    ELSE IF \E k \in 1..Len(CriticalCodes) :
                Contains(reason_codes, CriticalCodes[k])
    THEN [status |-> "likely_illegal", confidence |-> 92]
    ELSE IF \E i \in 1..Len(reason_codes) :
                EndsWith(reason_codes[i], Words__occupied)
    THEN [status |-> "likely_illegal", confidence |-> 88]
    ELSE [status |-> "uncertain", confidence |-> 75]

\* ZoneStatus with the suffix test narrowed to the bus lane's code
ZoneStatus_BusLaneSuffix(reason_codes) ==
    IF reason_codes = <<>>
    THEN [status |-> "legal", confidence |-> 95]
    ELSE IF \E k \in 1..Len(CriticalCodes) :
                Contains(reason_codes, CriticalCodes[k])
    THEN [status |-> "likely_illegal", confidence |-> 92]
    ELSE IF \E i \in 1..Len(reason_codes) :
                EndsWith(reason_codes[i], Words_bus_lane_occupied)
    THEN [status |-> "likely_illegal", confidence |-> 88]
    ELSE [status |-> "uncertain", confidence |-> 75]

\* ZoneStatus with "all" for the "any" of the critical test
ZoneStatus_AllCritical(reason_codes) ==
    IF reason_codes = <<>>
    THEN [status |-> "legal", confidence |-> 95]
    ELSE IF \A k \in 1..Len(CriticalCodes) :
                Contains(reason_codes, CriticalCodes[k])
    THEN [status |-> "likely_illegal", confidence |-> 92]
    ELSE IF \E i \in 1..Len(reason_codes) :
                EndsWith(reason_codes[i], Words__occupied)
    THEN [status |-> "likely_illegal", confidence |-> 88]
    ELSE [status |-> "uncertain", confidence |-> 75]

\* the status and confidence re-derived from the full set of reason codes
ZoneStatus(reason_codes) ==
    IF reason_codes = <<>>
    THEN [status |-> "legal", confidence |-> 95]
    ELSE IF \E k \in 1..Len(CriticalCodes) :
                Contains(reason_codes, CriticalCodes[k])
    THEN [status |-> "likely_illegal", confidence |-> 92]
    ELSE IF \E i \in 1..Len(reason_codes) :
                EndsWith(reason_codes[i], Words__occupied)
    THEN [status |-> "likely_illegal", confidence |-> 88]
    ELSE [status |-> "uncertain", confidence |-> 75]

\* NoZoneDecision with the confidence evaluate starts from (0.9)
NoZoneDecision_InitialConfidence(base_decision) ==
    LegalityDecision(base_decision.track_id, base_decision.status,
                     base_decision.reason_codes, 90)

\* the return of evaluate_with_zone for zone = None
NoZoneDecision(base_decision) == base_decision

evaluate_with_zone(r, f, obs, z) ==
    LET base_decision == evaluate(r, f, obs)
    IN  IF z = None
        THEN NoZoneDecision(base_decision)
        ELSE LET reason_codes ==
                     ZoneReasonCodes(r, obs, z[1], base_decision.reason_codes)
                 derived == ZoneStatus(reason_codes)
             IN  LegalityDecision(obs.track_id, derived.status, reason_codes,
                                  derived.confidence)

----------------------------------------------------------------------------
(* The inputs of the calls *)

\* hours of the day that the overnight rule tells apart, and its borders
Hours == {0, 5, 6, 23}

ConfiguredLimits == {600, DefaultDwellLimit, 1800}

DwellTimes ==
    {0} \cup {l + d : l \in ConfiguredLimits, d \in (0 - MaxDelta)..MaxDelta}

Frames == {[timestamp_utc |-> [hour |-> h]] : h \in Hours}

Observations ==
    [track_id : 1..MaxTrack, vehicle_type : VehicleType, lane_type : LaneType,
     is_double_parked : BOOLEAN, is_obstructing : BOOLEAN,
     dwell_time_seconds : DwellTimes]

Zones == {None} \cup {<<[zone_type |-> t]>> : t \in ZoneType}

----------------------------------------------------------------------------
(* The subsystems a specification does not exercise *)

IdleCalls == calls = <<>> /\ locals = <<>>

IdleApi ==
    /\ request = None
    /\ response = None
    /\ decisions = None
    /\ summary = None

\* ZoneAnalyzer.__init__ and nothing more, no image posted
IdleZones ==
    /\ image_calls = <<>>
    /\ running = None
    /\ image_request = None
    /\ cv_image = None
    /\ image_response = None
    /\ _zone_polygons = <<>>
    /\ zones = <<>>
    /\ detections = <<>>
    /\ assignments = <<>>
    /\ observations = <<>>

IdleOutsideEngine == IdleCalls /\ IdleApi /\ IdleZones

----------------------------------------------------------------------------
(* The engine as a state machine: construction, then one call *)

\* The state after construction: the rules are loaded, and the arguments of
\* the call about to be made are drawn (zone = None for a call without zone).
Init ==
    /\ \E i \in DOMAIN ConfigSources :
           /\ rules_path = ConfigSources[i]
           /\ ~LoadRaises(rules_path)
           /\ rules = _load_rules(rules_path)
    /\ op = "call"
    /\ frame \in Frames
    /\ observation \in Observations
    /\ zone \in Zones
    /\ decision = None
    /\ IdleOutsideEngine

\* the call rules_engine.evaluate(frame, observation)
Evaluate ==
    /\ op = "call"
    /\ zone = None
    /\ op' = "evaluate"
    /\ decision' = evaluate(rules, frame, observation)
    /\ UNCHANGED <<rules_path, rules, frame, observation, zone>>
    /\ UNCHANGED outsideEngine

\* the call rules_engine.evaluate_with_zone(frame, observation, zone)
EvaluateWithZone ==
    /\ op = "call"
    /\ op' = "evaluate_with_zone"
    /\ decision' = evaluate_with_zone(rules, frame, observation, zone)
    /\ UNCHANGED <<rules_path, rules, frame, observation, zone>>
    /\ UNCHANGED outsideEngine

Next == Evaluate \/ EvaluateWithZone

Spec == Init /\ [][Next]_vars

----------------------------------------------------------------------------
(* The engine from its construction on *)

\* before RulesEngine(rules_path): a file state at rules_path, and the
\* arguments of the call that follows the construction
InitNew ==
    /\ \E i \in DOMAIN ConfigSources : rules_path = ConfigSources[i]
    /\ rules = None
    /\ op = "new"
    /\ frame \in Frames
    /\ observation \in Observations
    /\ zone \in Zones
    /\ decision = None
    /\ IdleOutsideEngine

\* RulesEngine.__init__: the exception of _load_rules leaves the constructor
Construct ==
    /\ op = "new"
    /\ IF LoadRaises(rules_path)
       THEN op' = "raised" /\ UNCHANGED rules
       ELSE op' = "call" /\ rules' = _load_rules(rules_path)
    /\ UNCHANGED <<rules_path, frame, observation, zone, decision>>
    /\ UNCHANGED outsideEngine

NextConstruct == Construct \/ Evaluate \/ EvaluateWithZone

SpecConstruct == InitNew /\ [][NextConstruct]_vars

----------------------------------------------------------------------------
(* Concurrent calls on the shared engine (app/main.py: rules_engine), the  *)
(* methods taken statement by statement                                    *)

\* the arguments of the calls: one of each kind of outcome
CallSamples ==
    LET Obs(vt, lt, dp, dwell) ==
            [track_id |-> 1, vehicle_type |-> vt, lane_type |-> lt,
             is_double_parked |-> dp, is_obstructing |-> FALSE,
             dwell_time_seconds |-> dwell]
        AtHour(h) == [timestamp_utc |-> [hour |-> h]]
    IN  << [method |-> "evaluate", frame |-> AtHour(0),
            observation |-> Obs("commercial", "bus", TRUE, 1801),
            zone |-> None],
           [method |-> "evaluate", frame |-> AtHour(6),
            observation |-> Obs("passenger", "parking", FALSE, 0),
            zone |-> None],
           [method |-> "evaluate_with_zone", frame |-> AtHour(6),
            observation |-> Obs("passenger", "bus", FALSE, 901),
            zone |-> <<[zone_type |-> "bus_lane"]>>],
           [method |-> "evaluate_with_zone", frame |-> AtHour(6),
            observation |-> Obs("passenger", "parking", FALSE, 901),
            zone |-> <<[zone_type |-> "loading_zone"]>>],
           [method |-> "evaluate_with_zone", frame |-> AtHour(0),
            observation |-> Obs("commercial", "bike", FALSE, 0),
            zone |-> None],
           [method |-> "evaluate_with_zone", frame |-> AtHour(6),
            observation |-> Obs("bus", "bus", FALSE, 0),
            zone |-> <<[zone_type |-> "no_parking"]>>] >>

Callers == 1..MaxCalls

\* the local variables of a call before its first statement
Unbound ==
    [reason_codes |-> <<>>, confidence |-> 0, dwell_limit |-> 0,
     status |-> "", decision |-> None]

\* ActivationOf with the variables kept on the engine, one for all calls
ActivationOf_OnEngine(c) == 1

\* the activation holding the local variables of call c, one per call
ActivationOf(c) == c

InitCalls ==
    /\ \E i \in DOMAIN ConfigSources :
           /\ rules_path = ConfigSources[i]
           /\ ~LoadRaises(rules_path)
           /\ rules = _load_rules(rules_path)
    /\ op = "calls"
    /\ frame = None
    /\ observation = None
    /\ zone = None
    /\ decision = None
    /\ \E pick \in [Callers -> DOMAIN CallSamples] :
           calls = [c \in Callers |->
                       [pc |-> "start", args |-> CallSamples[pick[c]],
                        result |-> None]]
    /\ locals = [a \in Callers |-> Unbound]
    /\ IdleApi
    /\ IdleZones

At(c, pc) == calls[c].pc = pc

Goto(c, pc) == calls' = [calls EXCEPT ![c].pc = pc]

AppendCode(c, condition, code, next) ==
    /\ locals' = [locals EXCEPT ![ActivationOf(c)].reason_codes =
                     IF condition THEN Append(@, code) ELSE @]
    /\ Goto(c, next)
    /\ UNCHANGED <<engineVars, outsideCalls>>

\* EvalStart with setdefault for the first get
EvalStart_SetDefault(c) ==
    /\ At(c, "start")
    /\ locals' = [locals EXCEPT ![ActivationOf(c)] =
                     [Unbound EXCEPT
                         !.confidence = 90,
                         !.dwell_limit =
                             DwellLimit(rules,
                                        calls[c].args.observation.vehicle_type)]]
    /\ Goto(c, "double_parked")
    /\ rules' = IF "dwell_time_limits" \in DOMAIN rules
                THEN rules
                ELSE [k \in DOMAIN rules \cup {"dwell_time_limits"} |->
                         IF k = "dwell_time_limits" THEN EmptyDict
                         ELSE rules[k]]
    /\ UNCHANGED <<rules_path, op, frame, observation, zone, decision>>
    /\ UNCHANGED outsideCalls

\* evaluate, lines 22-25: reason_codes = [], confidence = 0.9, dwell_limit
EvalStart(c) ==
    /\ At(c, "start")
    /\ locals' = [locals EXCEPT ![ActivationOf(c)] =
                     [Unbound EXCEPT
                         !.confidence = 90,
                         !.dwell_limit =
                             DwellLimit(rules,
                                        calls[c].args.observation.vehicle_type)]]
    /\ Goto(c, "double_parked")
    /\ UNCHANGED <<engineVars, outsideCalls>>

\* evaluate, lines 27-28
EvalDoubleParked(c) ==
    /\ At(c, "double_parked")
    /\ AppendCode(c, calls[c].args.observation.is_double_parked,
                  Words_double_parking_detected, "obstructing")

\* evaluate, lines 29-30
EvalObstructing(c) ==
    /\ At(c, "obstructing")
    /\ AppendCode(c, calls[c].args.observation.is_obstructing,
                  Words_critical_obstruction, "lane")

\* evaluate, lines 31-32
EvalLane(c) ==
    /\ At(c, "lane")
    /\ AppendCode(c, calls[c].args.observation.lane_type \in {"bus", "bike"},
                  LaneOccupiedCode(calls[c].args.observation.lane_type),
                  "dwell")

\* evaluate, lines 33-34
EvalDwell(c) ==
    /\ At(c, "dwell")
    /\ AppendCode(c, calls[c].args.observation.dwell_time_seconds
                         > locals[ActivationOf(c)].dwell_limit,
                  Words_dwell_time_exceeded, "overnight")

\* evaluate, lines 36-38
EvalOvernight(c) ==
    /\ At(c, "overnight")
    /\ AppendCode(c, /\ Overnight(calls[c].args.frame)
                     /\ calls[c].args.observation.vehicle_type = "commercial",
                  Words_overnight_commercial_restriction, "derive")

\* evaluate, lines 40-58: the status, and the return, to the caller of the
\* engine or to evaluate_with_zone (line 67)
EvalDerive(c) ==
    /\ At(c, "derive")
    /\ LET a == ActivationOf(c)
           derived == BaseStatus(locals[a].reason_codes)
           returned ==
               LegalityDecision(calls[c].args.observation.track_id,
                                derived.status, locals[a].reason_codes,
                                derived.confidence)
       IN  /\ locals' = [locals EXCEPT ![a].status = derived.status,
                                       ![a].confidence = derived.confidence,
                                       ![a].decision = <<returned>>]
           /\ IF calls[c].args.method = "evaluate"
              THEN calls' = [calls EXCEPT ![c].pc = "done",
                                          ![c].result = <<returned>>]
              ELSE Goto(c, "copy")
    /\ UNCHANGED <<engineVars, outsideCalls>>

\* evaluate_with_zone, lines 68-71: the copy of the codes, the return for None
ZoneCopy(c) ==
    /\ At(c, "copy")
    /\ LET a == ActivationOf(c)
       IN  /\ locals' = [locals EXCEPT ![a].reason_codes =
                            locals[a].decision[1].reason_codes]
           /\ IF calls[c].args.zone = None
              THEN calls' = [calls EXCEPT ![c].pc = "done",
                                          ![c].result = locals[a].decision]
              ELSE Goto(c, "zone_rules")
    /\ UNCHANGED <<engineVars, outsideCalls>>

\* evaluate_with_zone, lines 74-89
ZoneRules(c) ==
    /\ At(c, "zone_rules")
    /\ locals' = [locals EXCEPT ![ActivationOf(c)].reason_codes =
                     ZoneReasonCodes(rules, calls[c].args.observation,
                                     calls[c].args.zone[1], @)]
    /\ Goto(c, "rederive")
    /\ UNCHANGED <<engineVars, outsideCalls>>

\* evaluate_with_zone, lines 92-119
ZoneDerive(c) ==
    /\ At(c, "rederive")
    /\ LET a == ActivationOf(c)
           derived == ZoneStatus(locals[a].reason_codes)
           returned ==
               LegalityDecision(calls[c].args.observation.track_id,
                                derived.status, locals[a].reason_codes,
                                derived.confidence)
       IN  /\ locals' = [locals EXCEPT ![a].status = derived.status,
                                       ![a].confidence = derived.confidence]
           /\ calls' = [calls EXCEPT ![c].pc = "done",
                                     ![c].result = <<returned>>]
    /\ UNCHANGED <<engineVars, outsideCalls>>

NextCalls ==
    \E c \in Callers :
        \/ EvalStart(c)
        \/ EvalDoubleParked(c)
        \/ EvalObstructing(c)
        \/ EvalLane(c)
        \/ EvalDwell(c)
        \/ EvalOvernight(c)
        \/ EvalDerive(c)
        \/ ZoneCopy(c)
        \/ ZoneRules(c)
        \/ ZoneDerive(c)

SpecCalls == InitCalls /\ [][NextCalls]_vars

----------------------------------------------------------------------------
(* app/analytics.py *)

OccupancyCapacity == 20

\* occupancy_rate, in thousandths: round(min(occupied / capacity, 1.0), 3)
occupancy_rate(obs_list) ==
    LET occupied ==
            Cardinality({i \in 1..Len(obs_list) :
                obs_list[i].lane_type \in {"parking", "travel", "bus", "bike"}})
        rate == (occupied * 1000) \div OccupancyCapacity
    IN  IF rate < 1000 THEN rate ELSE 1000

\* collections.Counter over the statuses of the decisions, in list order
RECURSIVE Counter(_)
Counter(statuses) ==
    IF statuses = <<>>
    THEN EmptyDict
    ELSE LET n == Len(statuses)
             counted == Counter(SubSeq(statuses, 1, n - 1))
         IN  [k \in DOMAIN counted \cup {statuses[n]} |->
                 Get(counted, k, 0) + (IF k = statuses[n] THEN 1 ELSE 0)]

\* summarize_decisions with the uncertain count taking what is not legal
\* or likely_illegal
summarize_decisions_Remainder(decision_list) ==
    LET counter ==
            Counter([i \in 1..Len(decision_list) |-> decision_list[i].status])
    IN  [legal |-> Get(counter, "legal", 0),
         likely_illegal |-> Get(counter, "likely_illegal", 0),
         uncertain |-> Len(decision_list) - Get(counter, "legal", 0)
                           - Get(counter, "likely_illegal", 0)]

summarize_decisions(decision_list) ==
    LET counter ==
            Counter([i \in 1..Len(decision_list) |-> decision_list[i].status])
    IN  [legal |-> Get(counter, "legal", 0),
         likely_illegal |-> Get(counter, "likely_illegal", 0),
         uncertain |-> Get(counter, "uncertain", 0)]

----------------------------------------------------------------------------
(* app/main.py: POST /analyze *)

\* BatchDecisions with the decisions put in front of the list
RECURSIVE BatchDecisions_Prepend(_, _, _)
BatchDecisions_Prepend(r, f, obs_list) ==
    IF obs_list = <<>>
    THEN <<>>
    ELSE BatchDecisions_Prepend(r, f, Tail(obs_list))
             \o <<evaluate(r, f, Head(obs_list))>>

\* [rules_engine.evaluate(request.frame, obs) for obs in request.observations]
RECURSIVE BatchDecisions(_, _, _)
BatchDecisions(r, f, obs_list) ==
    IF obs_list = <<>>
    THEN <<>>
    ELSE <<evaluate(r, f, Head(obs_list))>>
             \o BatchDecisions(r, f, Tail(obs_list))

analyze(r, req) ==
    LET decision_list == BatchDecisions(r, req.frame, req.observations)
    IN  [frame_id |-> req.frame.frame_id,
         occupancy_rate |-> occupancy_rate(req.observations),
         decisions |-> decision_list,
         summary |-> summarize_decisions(decision_list)]

\* observations of every outcome, to make the batches of
BatchObservations ==
    LET Obs(id, vt, lt, dp, dwell) ==
            [track_id |-> id, vehicle_type |-> vt, lane_type |-> lt,
             is_double_parked |-> dp, is_obstructing |-> FALSE,
             dwell_time_seconds |-> dwell]
    IN  { Obs(1, "commercial", "bus", TRUE, 1801),
          Obs(MaxTrack, "passenger", "parking", FALSE, 0),
          Obs(1, "passenger", "parking", FALSE, 901),
          Obs(MaxTrack, "bus", "bus", FALSE, 0),
          Obs(MaxTrack, "commercial", "travel", FALSE, 0),
          Obs(1, "scooter", "unknown", FALSE, 900) }

SeqsUpTo(S, n) == UNION {[1..k -> S] : k \in 0..n}

AnalyzeRequests ==
    [frame : {[frame_id |-> h + 1, timestamp_utc |-> [hour |-> h]] :
                 h \in {0, 6}},
     observations : SeqsUpTo(BatchObservations, MaxBatch)]

\* the engine constructed, a request received
InitAnalyze ==
    /\ \E i \in DOMAIN ConfigSources :
           /\ rules_path = ConfigSources[i]
           /\ ~LoadRaises(rules_path)
           /\ rules = _load_rules(rules_path)
    /\ op = "request"
    /\ frame = None
    /\ observation = None
    /\ zone = None
    /\ decision = None
    /\ IdleCalls
    /\ IdleZones
    /\ request \in AnalyzeRequests
    /\ response = None
    /\ decisions = None
    /\ summary = None

\* the handler of POST /analyze
Analyze ==
    /\ op = "request"
    /\ op' = "analyze"
    /\ response' = analyze(rules, request)
    /\ UNCHANGED <<rules_path, rules, frame, observation, zone, decision>>
    /\ UNCHANGED <<request, decisions, summary>>
    /\ UNCHANGED outsideApi

NextAnalyze == Analyze

SpecAnalyze == InitAnalyze /\ [][NextAnalyze]_vars

----------------------------------------------------------------------------
(* summarize_decisions on any list of decisions *)

\* decisions of every status the schema allows
SummarizeArguments ==
    SeqsUpTo({LegalityDecision(1, st, <<>>, 95) : st \in DecisionStatus},
             MaxDecisions)

InitSummarize ==
    /\ \E i \in DOMAIN ConfigSources :
           /\ rules_path = ConfigSources[i]
           /\ ~LoadRaises(rules_path)
           /\ rules = _load_rules(rules_path)
    /\ op = "summarize"
    /\ frame = None
    /\ observation = None
    /\ zone = None
    /\ decision = None
    /\ IdleCalls
    /\ IdleZones
    /\ request = None
    /\ response = None
    /\ decisions \in SummarizeArguments
    /\ summary = None

Summarize ==
    /\ op = "summarize"
    /\ op' = "summarized"
    /\ summary' = summarize_decisions(decisions)
    /\ UNCHANGED <<rules_path, rules, frame, observation, zone, decision>>
    /\ UNCHANGED <<request, response, decisions>>
    /\ UNCHANGED outsideApi

NextSummarize == Summarize

SpecSummarize == InitSummarize /\ [][NextSummarize]_vars

----------------------------------------------------------------------------
(* app/cv/zone_analyzer.py *)

\* shapely Polygon(points): the ring of the points, closed on its first
Polygon(points) == points \o <<points[1]>>

\* twice the signed area of the triangle a, b, p: positive when p lies to
\* the left of the edge from a to b, 0 when p lies on its line
Side(a, b, p) ==
    (b[1] - a[1]) * (p[2] - a[2]) - (b[2] - a[2]) * (p[1] - a[1])

\* shapely contains: the point is in the interior of the polygon, a point
\* of the boundary is not contained
PolygonContains(ring, p) ==
    \/ \A i \in 1..(Len(ring) - 1) : Side(ring[i], ring[i + 1], p) > 0
    \/ \A i \in 1..(Len(ring) - 1) : Side(ring[i], ring[i + 1], p) < 0

\* load_zones with the zones added to those already loaded
load_zones_Extend(loaded, zone_list) ==
    LET kept == SelectSeq(zone_list, LAMBDA z : Len(z.polygon) >= 3)
    IN  loaded \o [i \in 1..Len(kept) |-> <<kept[i], Polygon(kept[i].polygon)>>]

\* load_zones: the new value of _zone_polygons
load_zones(loaded, zone_list) ==
    LET kept == SelectSeq(zone_list, LAMBDA z : Len(z.polygon) >= 3)
    IN  [i \in 1..Len(kept) |-> <<kept[i], Polygon(kept[i].polygon)>>]

\* _find_zone: the first zone whose polygon contains the point
_find_zone(loaded, x, y) ==
    LET point == <<x, y>>
        hits == {i \in 1..Len(loaded) : PolygonContains(loaded[i][2], point)}
    IN  IF hits = {}
        THEN None
        ELSE <<loaded[CHOOSE i \in hits : \A j \in hits : i <= j][1]>>

\* the DetectionInZone of one detection
DetectionInZone(loaded, det) ==
    LET found == _find_zone(loaded, det.center_x, det.center_y)
    IN  [detection |-> det,
         zone |-> found,
         vehicle_type |-> Get(COCO_TO_VEHICLE_TYPE, det.label, "other"),
         lane_type |-> IF found # None
                       THEN Get(ZONE_TO_LANE_TYPE, found[1].zone_type,
                                "unknown")
                       ELSE "unknown",
         is_in_transit |-> found # None /\ found[1].zone_type = "travel_lane"]

RECURSIVE assign_detections_to_zones(_, _)
assign_detections_to_zones(loaded, detection_list) ==
    IF detection_list = <<>>
    THEN <<>>
    ELSE LET n == Len(detection_list)
         IN  Append(assign_detections_to_zones(
                        loaded, SubSeq(detection_list, 1, n - 1)),
                    DetectionInZone(loaded, detection_list[n]))

\* ObservationOf with every vehicle in a bus lane, a bike lane or at a
\* hydrant obstructing, the buses and the bikes as well
ObservationOf_NoExemption(a) ==
    LET zone_type == IF a.zone # None THEN <<a.zone[1].zone_type>> ELSE None
    IN  [track_id |-> a.detection.detection_id,
         vehicle_type |-> a.vehicle_type,
         lane_type |-> a.lane_type,
         is_double_parked |-> zone_type = <<"double_parking">>,
         is_obstructing |->
             zone_type \in {<<"bus_lane">>, <<"bike_lane">>,
                            <<"fire_hydrant">>},
         dwell_time_seconds |-> 0]

\* the VehicleObservation of one assignment
ObservationOf(a) ==
    LET zone_type == IF a.zone # None THEN <<a.zone[1].zone_type>> ELSE None
    IN  [track_id |-> a.detection.detection_id,
         vehicle_type |-> a.vehicle_type,
         lane_type |-> a.lane_type,
         is_double_parked |-> zone_type = <<"double_parking">>,
         is_obstructing |->
             /\ zone_type \in {<<"bus_lane">>, <<"bike_lane">>,
                               <<"fire_hydrant">>}
             /\ a.vehicle_type \notin {"bus", "bike"},
         dwell_time_seconds |-> 0]

RECURSIVE detections_to_observations(_)
detections_to_observations(assignment_list) ==
    IF assignment_list = <<>>
    THEN <<>>
    ELSE LET n == Len(assignment_list)
         IN  Append(detections_to_observations(
                        SubSeq(assignment_list, 1, n - 1)),
                    ObservationOf(assignment_list[n]))

\* two overlapping zones' outlines and an outline of two points only
SquareOutline == <<<<0, 0>>, <<4, 0>>, <<4, 4>>, <<0, 4>>>>

TriangleOutline == <<<<2, 0>>, <<6, 0>>, <<2, 4>>>>

SegmentOutline == <<<<0, 0>>, <<6, 6>>>>

\* a zone of every type, the outlines alternating, and a zone that has no
\* area
ZoneCatalogue ==
    LET Z(id, t, outline) ==
            [zone_id |-> id, zone_type |-> t, polygon |-> outline]
    IN  { Z(1, "parking", SquareOutline),
          Z(2, "bus_lane", TriangleOutline),
          Z(3, "no_parking", SquareOutline),
          Z(4, "bike_lane", TriangleOutline),
          Z(5, "loading_zone", SquareOutline),
          Z(6, "travel_lane", TriangleOutline),
          Z(7, "fire_hydrant", SquareOutline),
          Z(8, "double_parking", TriangleOutline),
          Z(9, "travel_lane", SegmentOutline) }

\* a detection of every label; the ground points lie in both outlines, in
\* the square only, on the square's edge and in the triangle, in neither
DetectionCatalogue ==
    LET D(id, l, x, y) ==
            [detection_id |-> id, label |-> l, center_x |-> x, center_y |-> y]
    IN  { D(0, "car", 3, 1),
          D(1, "truck", 1, 1),
          D(2, "bus", 4, 1),
          D(3, "motorcycle", 6, 6),
          D(4, "bicycle", 3, 1),
          D(5, "person", 1, 1) }

\* the engine and the zone analyzer constructed (app/main.py)
InitZones ==
    /\ rules_path = ConfigSources[1]
    /\ rules = _load_rules(rules_path)
    /\ op = "zones"
    /\ frame = None
    /\ observation = None
    /\ zone = None
    /\ decision = None
    /\ IdleCalls
    /\ IdleApi
    /\ IdleZones

LoadZones ==
    /\ op = "zones"
    /\ \E zone_list \in SeqsUpTo(ZoneCatalogue, MaxZones) :
           /\ zones' = zone_list
           /\ _zone_polygons' = load_zones(_zone_polygons, zone_list)
    /\ UNCHANGED <<engineVars, detections, assignments, observations>>
    /\ UNCHANGED outsideZones

AssignDetectionsToZones ==
    /\ op = "zones"
    /\ op' = "assigned"
    /\ \E detection_list \in SeqsUpTo(DetectionCatalogue, MaxDetections) :
           /\ detections' = detection_list
           /\ assignments' =
                  assign_detections_to_zones(_zone_polygons, detection_list)
    /\ UNCHANGED <<rules_path, rules, frame, observation, zone, decision>>
    /\ UNCHANGED <<_zone_polygons, zones, observations>>
    /\ UNCHANGED outsideZones

DetectionsToObservations ==
    /\ op = "assigned"
    /\ op' = "observed"
    /\ observations' = detections_to_observations(assignments)
    /\ UNCHANGED <<rules_path, rules, frame, observation, zone, decision>>
    /\ UNCHANGED <<_zone_polygons, zones, detections, assignments>>
    /\ UNCHANGED outsideZones

NextZones == LoadZones \/ AssignDetectionsToZones \/ DetectionsToObservations

SpecZones == InitZones /\ [][NextZones]_vars

----------------------------------------------------------------------------
(* app/main.py: POST /analyze/image *)

\* VehicleDetector.detect on the boxes the network finds: the id is the
\* position of the box, the ground point the middle of its lower edge
detect(boxes) ==
    [idx \in 1..Len(boxes) |->
        [detection_id |-> idx - 1,
         label |-> boxes[idx].label,
         center_x |-> (boxes[idx].x1 + boxes[idx].x2) \div 2,
         center_y |-> boxes[idx].y2]]

\* [evaluate_with_zone(frame, obs, assignment.zone)
\*      for obs, assignment in zip(observations, assignments)]
RECURSIVE PipelineDecisions(_, _, _, _)
PipelineDecisions(r, f, observation_list, assignment_list) ==
    IF observation_list = <<>> \/ assignment_list = <<>>
    THEN <<>>
    ELSE <<evaluate_with_zone(r, f, Head(observation_list),
                              Head(assignment_list).zone)>>
             \o PipelineDecisions(r, f, Tail(observation_list),
                                  Tail(assignment_list))

\* AllZones with the lanes found in the image put before the user's zones
AllZones_LanesFirst(req, image) == image.lanes \o req.zones

\* what analyze_image loads into the zone analyzer
AllZones(req, image) == req.zones \o image.lanes

analyze_image(r, req, image) ==
    LET detection_list == detect(image.boxes)
        loaded == load_zones(_zone_polygons, AllZones(req, image))
        assignment_list == assign_detections_to_zones(loaded, detection_list)
        observation_list == detections_to_observations(assignment_list)
        decision_list ==
            PipelineDecisions(r, req.frame, observation_list, assignment_list)
    IN  [frame_id |-> req.frame.frame_id,
         detections |-> detection_list,
         zone_assignments |-> assignment_list,
         occupancy_rate |-> occupancy_rate(observation_list),
         decisions |-> decision_list,
         summary |-> summarize_decisions(decision_list)]

\* zones a user draws: a travel lane, and two more over or beside it
UserZones ==
    { [zone_id |-> 1, zone_type |-> "travel_lane", polygon |-> SquareOutline],
      [zone_id |-> 2, zone_type |-> "parking", polygon |-> TriangleOutline],
      [zone_id |-> 3, zone_type |-> "no_parking", polygon |-> SquareOutline] }

\* what LaneDetector.detect_lanes returns: painted bus or bike lanes
DetectedLanes ==
    { <<>>,
      <<[zone_id |-> 10, zone_type |-> "bus_lane",
         polygon |-> TriangleOutline]>>,
      <<[zone_id |-> 11, zone_type |-> "bike_lane",
         polygon |-> SquareOutline]>> }

\* boxes whose ground points are (3, 1), (1, 1) and (6, 6)
DetectedBoxes ==
    { [label |-> "car", x1 |-> 2, y1 |-> 0, x2 |-> 4, y2 |-> 1],
      [label |-> "bus", x1 |-> 0, y1 |-> 0, x2 |-> 2, y2 |-> 1],
      [label |-> "truck", x1 |-> 5, y1 |-> 4, x2 |-> 7, y2 |-> 6] }

ImageAnalyzeRequests ==
    [frame : {[frame_id |-> h + 1, timestamp_utc |-> [hour |-> h]] :
                 h \in {0, 6}},
     zones : SeqsUpTo(UserZones, MaxZones)]

Images ==
    [boxes : SeqsUpTo(DetectedBoxes, MaxDetections), lanes : DetectedLanes]

\* the singletons constructed, a request and its image received
InitImage ==
    /\ \E i \in DOMAIN ConfigSources :
           /\ rules_path = ConfigSources[i]
           /\ ~LoadRaises(rules_path)
           /\ rules = _load_rules(rules_path)
    /\ op = "image_request"
    /\ frame = None
    /\ observation = None
    /\ zone = None
    /\ decision = None
    /\ IdleCalls
    /\ IdleApi
    /\ \E req \in ImageAnalyzeRequests : image_request = <<req>>
    /\ \E image \in Images : cv_image = <<image>>
    /\ image_response = None
    /\ image_calls = <<>>
    /\ running = None
    /\ _zone_polygons = <<>>
    /\ zones = <<>>
    /\ detections = <<>>
    /\ assignments = <<>>
    /\ observations = <<>>

\* the handler of POST /analyze/image
AnalyzeImage ==
    /\ op = "image_request"
    /\ op' = "analyze_image"
    /\ LET req == image_request[1]
           image == cv_image[1]
           resp == analyze_image(rules, req, image)
       IN  /\ zones' = AllZones(req, image)
           /\ _zone_polygons' = load_zones(_zone_polygons, AllZones(req, image))
           /\ detections' = resp.detections
           /\ assignments' = resp.zone_assignments
           /\ observations' = detections_to_observations(resp.zone_assignments)
           /\ image_response' = <<resp>>
    /\ UNCHANGED <<rules_path, rules, frame, observation, zone, decision>>
    /\ UNCHANGED <<image_request, cv_image>>
    /\ UNCHANGED outsideImage

NextImage == AnalyzeImage

SpecImage == InitImage /\ [][NextImage]_vars

----------------------------------------------------------------------------
(* Concurrent POST /analyze/image requests on the event loop, the handler    *)
(* taken statement by statement; zone_analyzer is shared (app/main.py)      *)

\* requests and their images; no zone id belongs to two of them
ImageSamples ==
    LET Z(id, t, outline) ==
            [zone_id |-> id, zone_type |-> t, polygon |-> outline]
        B(l, x1, y1, x2, y2) ==
            [label |-> l, x1 |-> x1, y1 |-> y1, x2 |-> x2, y2 |-> y2]
        F(id, h) == [frame_id |-> id, timestamp_utc |-> [hour |-> h]]
    IN  << [request |-> [frame |-> F(1, 0),
                         zones |-> <<Z(1, "travel_lane", SquareOutline)>>],
            image |-> [boxes |-> <<B("car", 2, 0, 4, 1)>>, lanes |-> <<>>]],
           [request |-> [frame |-> F(2, 6),
                         zones |-> <<Z(2, "parking", TriangleOutline)>>],
            image |-> [boxes |-> <<B("car", 2, 0, 4, 1), B("bus", 0, 0, 2, 1)>>,
                       lanes |-> <<Z(10, "bus_lane", TriangleOutline)>>]],
           [request |-> [frame |-> F(3, 6), zones |-> <<>>],
            image |-> [boxes |-> <<B("bus", 0, 0, 2, 1)>>,
                       lanes |-> <<Z(11, "bike_lane", SquareOutline)>>]],
           [request |-> [frame |-> F(4, 0),
                         zones |-> <<Z(3, "no_parking", SquareOutline)>>],
            image |-> [boxes |-> <<B("truck", 5, 4, 7, 6)>>, lanes |-> <<>>]] >>

Requests == 1..MaxRequests

\* the handler yields the event loop to the other requests only at
\* "image_bytes = await image.read()"
SuspensionPoints_AfterLoadZones == {"read", "load_zones"}

SuspensionPoints == {"read"}

\* the singletons constructed, the requests received and not yet handled
InitImageCalls ==
    /\ \E i \in DOMAIN ConfigSources :
           /\ rules_path = ConfigSources[i]
           /\ ~LoadRaises(rules_path)
           /\ rules = _load_rules(rules_path)
    /\ op = "image_calls"
    /\ frame = None
    /\ observation = None
    /\ zone = None
    /\ decision = None
    /\ IdleCalls
    /\ IdleApi
    /\ image_request = None
    /\ cv_image = None
    /\ image_response = None
    /\ _zone_polygons = <<>>
    /\ zones = <<>>
    /\ detections = <<>>
    /\ assignments = <<>>
    /\ observations = <<>>
    /\ \E pick \in [Requests -> DOMAIN ImageSamples] :
           image_calls = [r \in Requests |->
                             [pc |-> "parse", args |-> ImageSamples[pick[r]],
                              request |-> None, detections |-> None,
                              auto_zones |-> None, all_zones |-> None,
                              assignments |-> None, observations |-> None,
                              decisions |-> None, response |-> None]]
    /\ running = None

\* the request r runs its statement at pc: the event loop is free or is
\* running r already; it is given up at a suspension point and at the end
ImageStep(r, pc, next, locals_after) ==
    /\ image_calls[r].pc = pc
    /\ running = None \/ running = <<r>>
    /\ image_calls' =
           [image_calls EXCEPT ![r] = [locals_after EXCEPT !.pc = next]]
    /\ running' = IF pc \in SuspensionPoints \/ next = "done"
                  THEN None
                  ELSE <<r>>
    /\ UNCHANGED engineVars
    /\ UNCHANGED outsideLoop

\* request = ImageAnalyzeRequest.model_validate_json(request_json)
ImageParse(r) ==
    /\ ImageStep(r, "parse", "read",
                 [image_calls[r] EXCEPT
                      !.request = <<image_calls[r].args.request>>])
    /\ UNCHANGED zoneVars

\* image_bytes = await image.read(), and the decoding of the bytes
ImageRead(r) ==
    /\ ImageStep(r, "read", "detect", image_calls[r])
    /\ UNCHANGED zoneVars

\* detections = vehicle_detector.detect(cv_image)
ImageDetect(r) ==
    /\ ImageStep(r, "detect", "detect_lanes",
                 [image_calls[r] EXCEPT
                      !.detections = <<detect(image_calls[r].args.image.boxes)>>])
    /\ UNCHANGED zoneVars

\* auto_zones = lane_detector.detect_lanes(cv_image)
ImageDetectLanes(r) ==
    /\ ImageStep(r, "detect_lanes", "load_zones",
                 [image_calls[r] EXCEPT
                      !.auto_zones = <<image_calls[r].args.image.lanes>>])
    /\ UNCHANGED zoneVars

\* all_zones = list(request.zones) + auto_zones
\* zone_analyzer.load_zones(all_zones)
ImageLoadZones(r) ==
    LET all_zones == AllZones(image_calls[r].request[1],
                              [lanes |-> image_calls[r].auto_zones[1]])
    IN  /\ ImageStep(r, "load_zones", "assign",
                     [image_calls[r] EXCEPT !.all_zones = <<all_zones>>])
        /\ _zone_polygons' = load_zones(_zone_polygons, all_zones)
        /\ zones' = all_zones
        /\ UNCHANGED <<detections, assignments, observations>>

\* assignments = zone_analyzer.assign_detections_to_zones(detections)
ImageAssign(r) ==
    /\ ImageStep(r, "assign", "decide",
                 [image_calls[r] EXCEPT
                      !.assignments =
                          <<assign_detections_to_zones(
                                _zone_polygons, image_calls[r].detections[1])>>])
    /\ UNCHANGED zoneVars

\* observations = zone_analyzer.detections_to_observations(assignments)
\* decisions = [rules_engine.evaluate_with_zone(...) for ... in zip(...)]
ImageDecide(r) ==
    LET observation_list ==
            detections_to_observations(image_calls[r].assignments[1])
    IN  /\ ImageStep(r, "decide", "respond",
                     [image_calls[r] EXCEPT
                          !.observations = <<observation_list>>,
                          !.decisions =
                              <<PipelineDecisions(
                                    rules, image_calls[r].request[1].frame,
                                    observation_list,
                                    image_calls[r].assignments[1])>>])
        /\ UNCHANGED zoneVars

\* the analytics and the ImageAnalyzeResponse returned
ImageRespond(r) ==
    LET c == image_calls[r]
    IN  /\ ImageStep(r, "respond", "done",
                     [c EXCEPT
                          !.response =
                              <<[frame_id |-> c.request[1].frame.frame_id,
                                 detections |-> c.detections[1],
                                 zone_assignments |-> c.assignments[1],
                                 occupancy_rate |->
                                     occupancy_rate(c.observations[1]),
                                 decisions |-> c.decisions[1],
                                 summary |->
                                     summarize_decisions(c.decisions[1])]>>])
        /\ UNCHANGED zoneVars

NextImageCalls ==
    \E r \in Requests :
        \/ ImageParse(r)
        \/ ImageRead(r)
        \/ ImageDetect(r)
        \/ ImageDetectLanes(r)
        \/ ImageLoadZones(r)
        \/ ImageAssign(r)
        \/ ImageDecide(r)
        \/ ImageRespond(r)

SpecImageCalls == InitImageCalls /\ [][NextImageCalls]_vars

----------------------------------------------------------------------------
(* Vocabulary of the properties, stated on the arguments and the decision   *)
(* of the call and not through the operators of the engine                 *)

Called(name) == op = name

HasCode(code) ==
    \E i \in 1..Len(decision.reason_codes) : decision.reason_codes[i] = code

\* the configured dwell limit of a vehicle type, 900 when there is none
LimitFor(vehicle_type) ==
    IF "dwell_time_limits" \in DOMAIN rules
    THEN IF vehicle_type \in DOMAIN rules.dwell_time_limits
         THEN rules.dwell_time_limits[vehicle_type]
         ELSE 900
    ELSE 900

Hour == frame.timestamp_utc.hour

\* the five base codes in the order of the specification
BaseCandidates ==
    << <<"double", "_", "parking", "_", "detected">>,
       <<"critical", "_", "obstruction">>,
       <<observation.lane_type, "_", "lane", "_", "occupied">>,
       <<"dwell", "_", "time", "_", "exceeded">>,
       <<"overnight", "_", "commercial", "_", "restriction">> >>

BaseConditionHolds(k) ==
    CASE k = 1 -> observation.is_double_parked
      [] k = 2 -> observation.is_obstructing
      [] k = 3 -> observation.lane_type \in {"bus", "bike"}
      [] k = 4 -> observation.dwell_time_seconds
                      > LimitFor(observation.vehicle_type)
      [] k = 5 -> Hour \in 0..5 /\ observation.vehicle_type = "commercial"

\* the subsequence of BaseCandidates whose conditions hold
ExpectedBaseCodes ==
    LET kept == SelectSeq(<<1, 2, 3, 4, 5>>, BaseConditionHolds)
    IN  [i \in 1..Len(kept) |-> BaseCandidates[kept[i]]]

\* the last n words of a code
LastWords(code, n) == [i \in 1..n |-> code[Len(code) - n + i]]

EndsIn_lane_occupied(code) ==
    Len(code) >= 3 /\ LastWords(code, 3) = <<"lane", "_", "occupied">>

EndsIn__lane_occupied(code) ==
    Len(code) >= 4 /\ LastWords(code, 4) = <<"_", "lane", "_", "occupied">>

EndsIn__occupied(code) ==
    Len(code) >= 2 /\ LastWords(code, 2) = <<"_", "occupied">>

\* the zone of a call with a zone
ZoneGiven == zone # None

ZoneTypeIs(t) == ZoneGiven /\ zone[1].zone_type = t

\* the decision evaluate returns for the arguments of the call
BaseDecision == evaluate(rules, frame, observation)

BaseHasCode(code) ==
    \E i \in 1..Len(BaseDecision.reason_codes) :
        BaseDecision.reason_codes[i] = code

When(condition, code) == IF condition THEN <<code>> ELSE <<>>

\* the codes the zone rules add, in the order of the specification
ExpectedZoneCodes ==
    When(ZoneTypeIs("no_parking"),
         <<"no", "_", "parking", "_", "zone", "_", "violation">>)
    \o When(ZoneTypeIs("fire_hydrant"),
            <<"fire", "_", "hydrant", "_", "zone", "_", "violation">>)
    \o When(ZoneTypeIs("travel_lane"),
            <<"travel", "_", "lane", "_", "violation">>)
    \o When(/\ ZoneTypeIs("bus_lane")
            /\ observation.vehicle_type # "bus"
            /\ ~BaseHasCode(<<"bus", "_", "lane", "_", "occupied">>),
            <<"bus", "_", "lane", "_", "occupied">>)
    \o When(/\ ZoneTypeIs("bike_lane")
            /\ observation.vehicle_type # "bike"
            /\ ~BaseHasCode(<<"bike", "_", "lane", "_", "occupied">>),
            <<"bike", "_", "lane", "_", "occupied">>)
    \o When(/\ ZoneTypeIs("loading_zone")
            /\ observation.vehicle_type = "passenger"
            /\ observation.dwell_time_seconds > LimitFor("passenger"),
            <<"loading", "_", "zone", "_", "passenger", "_", "overstay">>)

\* severity rank: legal < uncertain < likely_illegal
Rank(status) ==
    CASE status = "legal" -> 0
      [] status = "uncertain" -> 1
      [] status = "likely_illegal" -> 2

----------------------------------------------------------------------------
(* Properties of RulesEngine.evaluate *)

\* C1: evaluate returns as reason_codes the subsequence of
\* [double_parking_detected, critical_obstruction, <lane_type>_lane_occupied,
\* dwell_time_exceeded, overnight_commercial_restriction] whose conditions
\* hold, in that order and with no other code, and echoes the observation's
\* track_id.
C1_BaseCodesInOrder ==
    Called("evaluate") =>
        /\ decision.reason_codes = ExpectedBaseCodes
        /\ decision.track_id = observation.track_id

\* all five codes are collected, for the second track id
C1_Witness ==
    /\ Called("evaluate")
    /\ Len(decision.reason_codes) = 5
    /\ observation.lane_type = "bike"
    /\ decision.track_id = 2

\* C2: evaluate derives status and confidence from its reason codes by
\* first-match priority: none gives (legal, 0.95); else critical_obstruction
\* or double_parking_detected gives (likely_illegal, 0.92); else a code
\* ending in lane_occupied gives (likely_illegal, 0.88); else
\* (uncertain, 0.75).
C2_BaseStatusPriority ==
    Called("evaluate") =>
        <<decision.status, decision.confidence>> =
            CASE Len(decision.reason_codes) = 0 -> <<"legal", 95>>
              [] /\ Len(decision.reason_codes) > 0
                 /\ \/ HasCode(<<"critical", "_", "obstruction">>)
                    \/ HasCode(<<"double", "_", "parking", "_", "detected">>)
                 -> <<"likely_illegal", 92>>
              [] /\ Len(decision.reason_codes) > 0
                 /\ ~HasCode(<<"critical", "_", "obstruction">>)
                 /\ ~HasCode(<<"double", "_", "parking", "_", "detected">>)
                 /\ \E i \in 1..Len(decision.reason_codes) :
                        EndsIn_lane_occupied(decision.reason_codes[i])
                 -> <<"likely_illegal", 88>>
              [] OTHER -> <<"uncertain", 75>>

\* one critical code only, next to a lane code: the second rule wins
C2_Witness ==
    /\ Called("evaluate")
    /\ HasCode(<<"double", "_", "parking", "_", "detected">>)
    /\ ~HasCode(<<"critical", "_", "obstruction">>)
    /\ HasCode(<<"bus", "_", "lane", "_", "occupied">>)
    /\ decision.status = "likely_illegal"
    /\ decision.confidence = 92

\* C6: with is_double_parked, whatever the other fields, the hour and the
\* configuration, evaluate returns double_parking_detected among the reason
\* codes, status likely_illegal and confidence 0.92.
C6_DoubleParkedIsIllegal ==
    (Called("evaluate") /\ observation.is_double_parked) =>
        /\ HasCode(<<"double", "_", "parking", "_", "detected">>)
        /\ decision.status = "likely_illegal"
        /\ decision.confidence = 92

\* double parked in a bike lane past the dwell limit
C6_Witness ==
    /\ Called("evaluate")
    /\ observation.is_double_parked
    /\ ~observation.is_obstructing
    /\ observation.lane_type = "bike"
    /\ observation.dwell_time_seconds > LimitFor(observation.vehicle_type)
    /\ decision.confidence = 92

\* C7: with lane_type bus or bike and neither flag set, evaluate returns
\* likely_illegal at 0.88 and exactly one code ending in _lane_occupied,
\* whatever the dwell time, the vehicle type and the hour.
C7_LaneOccupiedIsIllegal ==
    (/\ Called("evaluate")
     /\ observation.lane_type \in {"bus", "bike"}
     /\ ~observation.is_double_parked
     /\ ~observation.is_obstructing) =>
        /\ decision.status = "likely_illegal"
        /\ decision.confidence = 88
        /\ Cardinality({i \in 1..Len(decision.reason_codes) :
                           EndsIn__lane_occupied(decision.reason_codes[i])}) = 1

\* a commercial vehicle in a bus lane overnight, past its dwell limit
C7_Witness ==
    /\ Called("evaluate")
    /\ observation.lane_type = "bus"
    /\ ~observation.is_double_parked
    /\ ~observation.is_obstructing
    /\ Len(decision.reason_codes) = 3
    /\ decision.confidence = 88

\* C8: with no flag, a lane type other than bus and bike, a dwell time not
\* above the (possibly defaulted) limit of the vehicle type, and not a
\* commercial vehicle in hours 0..5, evaluate returns legal at 0.95 with no
\* reason code.
C8_NothingToReportIsLegal ==
    (/\ Called("evaluate")
     /\ ~observation.is_double_parked
     /\ ~observation.is_obstructing
     /\ observation.lane_type \notin {"bus", "bike"}
     /\ observation.dwell_time_seconds <= LimitFor(observation.vehicle_type)
     /\ ~(Hour \in 0..5 /\ observation.vehicle_type = "commercial")) =>
        /\ decision.status = "legal"
        /\ decision.confidence = 95
        /\ decision.reason_codes = <<>>

\* a commercial vehicle at 6 o'clock, exactly at its configured limit
C8_Witness ==
    /\ Called("evaluate")
    /\ observation.vehicle_type = "commercial"
    /\ Hour = 6
    /\ observation.dwell_time_seconds = 1800
    /\ LimitFor("commercial") = 1800
    /\ decision.status = "legal"

----------------------------------------------------------------------------
(* Properties of RulesEngine.evaluate_with_zone *)

\* C3: with a zone, evaluate_with_zone returns evaluate's codes followed by
\* the zone codes: no_parking_zone_violation, fire_hydrant_zone_violation,
\* travel_lane_violation for these zone types; bus_lane_occupied
\* (bike_lane_occupied) for a bus_lane (bike_lane) zone, a vehicle that is
\* not a bus (bike) and the code not already present;
\* loading_zone_passenger_overstay for a loading_zone, a passenger vehicle
\* and a dwell time above the passenger limit.  Zone types parking and
\* double_parking add nothing.
C3_ZoneCodesAppended ==
    (Called("evaluate_with_zone") /\ ZoneGiven) =>
        /\ decision.reason_codes =
               BaseDecision.reason_codes \o ExpectedZoneCodes
        /\ (ZoneTypeIs("parking") \/ ZoneTypeIs("double_parking")) =>
               decision.reason_codes = BaseDecision.reason_codes

\* a passenger vehicle overstaying in a loading zone, limit configured
C3_Witness ==
    /\ Called("evaluate_with_zone")
    /\ ZoneTypeIs("loading_zone")
    /\ LimitFor("passenger") = 600
    /\ observation.dwell_time_seconds = 601
    /\ decision.reason_codes =
           << <<"dwell", "_", "time", "_", "exceeded">>,
              <<"loading", "_", "zone", "_", "passenger", "_", "overstay">> >>

\* C4: with a zone, status and confidence follow from the combined codes by
\* first-match priority: none gives (legal, 0.95); else one of
\* fire_hydrant_zone_violation, no_parking_zone_violation,
\* travel_lane_violation, double_parking_detected, critical_obstruction
\* gives (likely_illegal, 0.92); else a code ending in _occupied gives
\* (likely_illegal, 0.88); else (uncertain, 0.75).
C4_ZoneStatusPriority ==
    (Called("evaluate_with_zone") /\ ZoneGiven) =>
        <<decision.status, decision.confidence>> =
            IF Len(decision.reason_codes) = 0
            THEN <<"legal", 95>>
            ELSE IF \/ HasCode(<<"fire", "_", "hydrant", "_", "zone", "_",
                                 "violation">>)
                    \/ HasCode(<<"no", "_", "parking", "_", "zone", "_",
                                 "violation">>)
                    \/ HasCode(<<"travel", "_", "lane", "_", "violation">>)
                    \/ HasCode(<<"double", "_", "parking", "_", "detected">>)
                    \/ HasCode(<<"critical", "_", "obstruction">>)
            THEN <<"likely_illegal", 92>>
            ELSE IF \E i \in 1..Len(decision.reason_codes) :
                        EndsIn__occupied(decision.reason_codes[i])
            THEN <<"likely_illegal", 88>>
            ELSE <<"uncertain", 75>>

\* a lane code next to the travel lane violation: the second rule wins
C4_Witness ==
    /\ Called("evaluate_with_zone")
    /\ decision.reason_codes =
           << <<"bus", "_", "lane", "_", "occupied">>,
              <<"travel", "_", "lane", "_", "violation">> >>
    /\ decision.status = "likely_illegal"
    /\ decision.confidence = 92

\* C5: evaluate_with_zone(frame, obs, None) returns a decision equal in
\* track_id, status, reason_codes and confidence to evaluate(frame, obs).
C5_NoZoneIsBase ==
    (Called("evaluate_with_zone") /\ zone = None) =>
        /\ decision.track_id = BaseDecision.track_id
        /\ decision.status = BaseDecision.status
        /\ decision.reason_codes = BaseDecision.reason_codes
        /\ decision.confidence = BaseDecision.confidence

\* a call without zone that reports two codes
C5_Witness ==
    /\ Called("evaluate_with_zone")
    /\ zone = None
    /\ Len(decision.reason_codes) = 2
    /\ decision.status = "uncertain"

\* C9: with a zone of type no_parking, fire_hydrant or travel_lane, the
\* severity rank (legal < uncertain < likely_illegal) of the decision is at
\* least the rank of evaluate's decision for the same arguments.
C9_CriticalZoneNeverLowers ==
    (/\ Called("evaluate_with_zone")
     /\ \/ ZoneTypeIs("no_parking")
        \/ ZoneTypeIs("fire_hydrant")
        \/ ZoneTypeIs("travel_lane")) =>
        Rank(decision.status) >= Rank(BaseDecision.status)

\* a double parked vehicle in a no_parking zone stays likely_illegal
C9_Witness ==
    /\ Called("evaluate_with_zone")
    /\ ZoneTypeIs("no_parking")
    /\ observation.is_double_parked
    /\ Rank(BaseDecision.status) = 2
    /\ Rank(decision.status) = 2

\* C10: a bus in a bus lane (no flag, dwell within the limit) with a
\* bus_lane zone: the base pass adds bus_lane_occupied although the vehicle
\* is a bus, the zone pass does not add it again, so reason_codes is
\* [bus_lane_occupied] and the decision is likely_illegal at 0.88.
C10_BusInBusLane ==
    (/\ Called("evaluate_with_zone")
     /\ ZoneTypeIs("bus_lane")
     /\ observation.vehicle_type = "bus"
     /\ observation.lane_type = "bus"
     /\ ~observation.is_double_parked
     /\ ~observation.is_obstructing
     /\ observation.dwell_time_seconds <= LimitFor("bus")) =>
        /\ BaseDecision.reason_codes =
               << <<"bus", "_", "lane", "_", "occupied">> >>
        /\ decision.reason_codes =
               << <<"bus", "_", "lane", "_", "occupied">> >>
        /\ decision.status = "likely_illegal"
        /\ decision.confidence = 88

\* the scenario itself, at the dwell limit
C10_Witness ==
    /\ Called("evaluate_with_zone")
    /\ ZoneTypeIs("bus_lane")
    /\ observation.vehicle_type = "bus"
    /\ observation.lane_type = "bus"
    /\ ~observation.is_double_parked
    /\ ~observation.is_obstructing
    /\ observation.dwell_time_seconds = 900
    /\ Len(decision.reason_codes) = 1

----------------------------------------------------------------------------
(* Properties of the reason codes of both entry points *)

\* C11: no reason code appears more than once in the reason_codes returned
\* by evaluate or evaluate_with_zone, whatever the observation, the hour and
\* the zone type; in particular a bus_lane_occupied or bike_lane_occupied of
\* the base pass is not appended again by the zone pass.
C11_NoDuplicateCode ==
    (Called("evaluate") \/ Called("evaluate_with_zone")) =>
        \A i, j \in 1..Len(decision.reason_codes) :
            decision.reason_codes[i] = decision.reason_codes[j] => i = j

\* a car in a bus lane with a bus_lane zone: both passes would add the code
C11_Witness ==
    /\ Called("evaluate_with_zone")
    /\ ZoneTypeIs("bus_lane")
    /\ observation.lane_type = "bus"
    /\ observation.vehicle_type = "passenger"
    /\ HasCode(<<"bus", "_", "lane", "_", "occupied">>)

HasDwellEntry(vehicle_type) ==
    /\ "dwell_time_limits" \in DOMAIN rules
    /\ vehicle_type \in DOMAIN rules.dwell_time_limits

\* C12: for a vehicle type without entry in dwell_time_limits (the empty
\* configuration included) dwell_time_exceeded is present iff
\* dwell_time_seconds >= 901; with an entry, iff dwell_time_seconds is
\* strictly greater than the entry.
C12_DwellLimitStrict ==
    Called("evaluate") =>
        /\ ~HasDwellEntry(observation.vehicle_type) =>
               (HasCode(<<"dwell", "_", "time", "_", "exceeded">>)
                    <=> observation.dwell_time_seconds >= 901)
        /\ HasDwellEntry(observation.vehicle_type) =>
               (HasCode(<<"dwell", "_", "time", "_", "exceeded">>)
                    <=> observation.dwell_time_seconds
                            > rules.dwell_time_limits[observation.vehicle_type])

\* a scooter at 901 seconds under the empty configuration
C12_Witness ==
    /\ Called("evaluate")
    /\ DOMAIN rules = {}
    /\ observation.vehicle_type = "scooter"
    /\ observation.dwell_time_seconds = 901
    /\ HasCode(<<"dwell", "_", "time", "_", "exceeded">>)

----------------------------------------------------------------------------
(* Properties of the construction *)

\* C13: the configuration source never makes construction or evaluation
\* end in an error: with a missing or unreadable document, an empty one, one
\* without the dwell_time_limits key or without the key of a vehicle type,
\* the engine is constructed, every call returns a decision and the
\* 900-second default applies.
C13_ConfigNeverFatal ==
    /\ op # "raised"
    /\ (Called("evaluate") \/ Called("evaluate_with_zone")) =>
           /\ decision.track_id = observation.track_id
           /\ ~HasDwellEntry(observation.vehicle_type) =>
                  (HasCode(<<"dwell", "_", "time", "_", "exceeded">>)
                       <=> observation.dwell_time_seconds > 900)

----------------------------------------------------------------------------
(* Properties of repeated and concurrent calls *)

Done(c) == calls[c].pc = "done"

\* the decision of the call c made alone on the engine
Alone(c) ==
    IF calls[c].args.method = "evaluate"
    THEN evaluate(rules, calls[c].args.frame, calls[c].args.observation)
    ELSE evaluate_with_zone(rules, calls[c].args.frame,
                            calls[c].args.observation, calls[c].args.zone)

\* C14: two calls of evaluate (or of evaluate_with_zone) on one engine with
\* identical frame, observation and zone return identical decisions, and no
\* step of a call changes the loaded rules, the observation or the zone.
C14_SameArgumentsSameDecision ==
    /\ [](\A c, d \in Callers :
             (Done(c) /\ Done(d) /\ calls[c].args = calls[d].args)
                 => calls[c].result = calls[d].result)
    /\ [][/\ rules' = rules
          /\ \A c \in Callers : calls'[c].args = calls[c].args]_vars

\* two finished calls of evaluate_with_zone with the same arguments
C14_Witness ==
    /\ op = "calls"
    /\ Done(1) /\ Done(2)
    /\ calls[1].args = calls[2].args
    /\ calls[1].args.method = "evaluate_with_zone"
    /\ Len(calls[1].result[1].reason_codes) = 2

\* C15: calls made concurrently on one shared engine return, under every
\* interleaving of their steps, the decision each returns when run alone;
\* the rules, the only shared state, are never written by a step.
C15_ConcurrentCallsIndependent ==
    /\ [](\A c \in Callers : Done(c) => calls[c].result = <<Alone(c)>>)
    /\ [][rules' = rules]_vars

\* two finished calls with different arguments and different decisions
C15_Witness ==
    /\ op = "calls"
    /\ Done(1) /\ Done(2)
    /\ calls[1].args.method # calls[2].args.method
    /\ calls[1].result[1].status = "likely_illegal"
    /\ calls[2].result[1].status = "uncertain"

----------------------------------------------------------------------------
(* Properties of POST /analyze and of summarize_decisions *)

\* C16: /analyze returns one decision per observation, in the order of the
\* observations; decision i carries the track_id of observation i and is
\* the decision of evaluate for the frame and observation i alone, whatever
\* the other observations of the batch are.
C16_BatchDecisionsIndependent ==
    Called("analyze") =>
        /\ Len(response.decisions) = Len(request.observations)
        /\ \A i \in 1..Len(request.observations) :
               /\ response.decisions[i].track_id
                      = request.observations[i].track_id
               /\ response.decisions[i]
                      = evaluate(rules, request.frame, request.observations[i])

\* a batch of two observations with different track ids and outcomes
C16_Witness ==
    /\ Called("analyze")
    /\ Len(response.decisions) = 2
    /\ response.decisions[1].track_id = 2
    /\ response.decisions[2].track_id = 1
    /\ response.decisions[1].status = "legal"
    /\ response.decisions[2].status = "likely_illegal"

CountOf(status) ==
    Cardinality({i \in 1..Len(decisions) : decisions[i].status = status})

\* C17: summarize_decisions returns, for each of legal, likely_illegal and
\* uncertain, the number of decisions of the list with that status, 0 when
\* there is none, for every list of decisions.
C17_SummaryCounts ==
    Called("summarized") =>
        /\ DOMAIN summary = {"legal", "likely_illegal", "uncertain"}
        /\ \A st \in {"legal", "likely_illegal", "uncertain"} :
               summary[st] = CountOf(st)

\* a list with two statuses counted, one absent and one not reported
C17_Witness ==
    /\ Called("summarized")
    /\ CountOf("in_transit") = 1
    /\ summary.legal = 0
    /\ summary.likely_illegal = 1
    /\ summary.uncertain = 1

----------------------------------------------------------------------------
(* Properties of the zone analyzer *)

GroundPoint(det) == <<det.center_x, det.center_y>>

\* the positions, in the latest load_zones list, of the zones that have an
\* area and contain the ground point of the detection
ZonesAround(det) ==
    {k \in 1..Len(zones) :
        /\ Len(zones[k].polygon) >= 3
        /\ PolygonContains(Polygon(zones[k].polygon), GroundPoint(det))}

Assigned == op \in {"assigned", "observed"}

\* C19: after any sequence of load_zones calls, every detection is assigned
\* the earliest zone of the latest load_zones list whose polygon contains
\* its ground point, and no zone when that list has none; the zones of
\* earlier calls are not considered.
C19_FirstLoadedZoneWins ==
    Assigned =>
        \A i \in 1..Len(assignments) :
            LET around == ZonesAround(assignments[i].detection)
            IN  IF around = {}
                THEN assignments[i].zone = None
                ELSE \E k \in around :
                         /\ \A j \in around : k <= j
                         /\ assignments[i].zone = <<zones[k]>>

\* a ground point inside two different zones of the list: the first one is
\* assigned
C19_Witness ==
    /\ Assigned
    /\ Len(zones) = 2
    /\ zones[1].zone_type # zones[2].zone_type
    /\ \E i \in 1..Len(assignments) :
           /\ ZonesAround(assignments[i].detection) = {1, 2}
           /\ assignments[i].zone = <<zones[1]>>

\* the lane type the claim gives for a zone type
LaneTypeOfZoneType(t) ==
    CASE t \in {"parking", "no_parking", "loading_zone", "fire_hydrant"}
             -> "parking"
      [] t = "bus_lane" -> "bus"
      [] t = "bike_lane" -> "bike"
      [] t \in {"double_parking", "travel_lane"} -> "travel"

\* the vehicle type the claim gives for a label
VehicleTypeOfLabel(l) ==
    CASE l = "car" -> "passenger"
      [] l = "truck" -> "commercial"
      [] l = "bus" -> "bus"
      [] l = "motorcycle" -> "scooter"
      [] l = "bicycle" -> "bike"
      [] l = "person" -> "other"

\* C20: assign_detections_to_zones returns one assignment per detection in
\* input order; a detection inside a loaded zone gets a zone that contains
\* its ground point and the lane type of that zone's type, a detection
\* inside no zone gets no zone and lane type unknown; the vehicle type is
\* that of the label, whatever the zone.
C20_AssignmentPerDetection ==
    Assigned =>
        /\ Len(assignments) = Len(detections)
        /\ \A i \in 1..Len(detections) :
               LET a == assignments[i]
               IN  /\ a.detection = detections[i]
                   /\ a.vehicle_type = VehicleTypeOfLabel(detections[i].label)
                   /\ IF ZonesAround(detections[i]) = {}
                      THEN a.zone = None /\ a.lane_type = "unknown"
                      ELSE /\ \E k \in ZonesAround(detections[i]) :
                                  a.zone = <<zones[k]>>
                           /\ a.lane_type
                                  = LaneTypeOfZoneType(a.zone[1].zone_type)

\* two detections of different labels, one in a double_parking zone and
\* one outside every zone
C20_Witness ==
    /\ Assigned
    /\ Len(assignments) = 2
    /\ assignments[1].zone # None
    /\ assignments[1].zone[1].zone_type = "double_parking"
    /\ assignments[1].lane_type = "travel"
    /\ assignments[1].vehicle_type = "passenger"
    /\ assignments[2].zone = None
    /\ assignments[2].lane_type = "unknown"
    /\ assignments[2].vehicle_type = "scooter"

\* the type of the zone assigned, "none" when no zone is
AssignedZoneType(a) == IF a.zone = None THEN "none" ELSE a.zone[1].zone_type

\* C21: detections_to_observations returns one observation per assignment,
\* in order: track_id is the detection_id, vehicle_type and lane_type are
\* the assignment's, dwell_time_seconds is 0, is_double_parked holds iff
\* the assigned zone is a double_parking zone, is_obstructing holds iff
\* the assigned zone is a bus_lane, a bike_lane or a fire_hydrant and the
\* vehicle type is neither bus nor bike.
C21_ObservationPerAssignment ==
    Called("observed") =>
        /\ Len(observations) = Len(assignments)
        /\ \A i \in 1..Len(assignments) :
               LET a == assignments[i]
                   o == observations[i]
               IN  /\ o.track_id = a.detection.detection_id
                   /\ o.vehicle_type = a.vehicle_type
                   /\ o.lane_type = a.lane_type
                   /\ o.dwell_time_seconds = 0
                   /\ o.is_double_parked
                          <=> AssignedZoneType(a) = "double_parking"
                   /\ o.is_obstructing
                          <=> /\ AssignedZoneType(a) \in
                                     {"bus_lane", "bike_lane", "fire_hydrant"}
                              /\ a.vehicle_type # "bus"
                              /\ a.vehicle_type # "bike"

\* a car and a bus in the same bus lane: the car obstructs, the bus does
\* not
C21_Witness ==
    /\ Called("observed")
    /\ Len(observations) = 2
    /\ AssignedZoneType(assignments[1]) = "bus_lane"
    /\ AssignedZoneType(assignments[2]) = "bus_lane"
    /\ observations[1].vehicle_type = "passenger"
    /\ observations[1].is_obstructing
    /\ observations[2].vehicle_type = "bus"
    /\ ~observations[2].is_obstructing
    /\ observations[1].track_id # observations[2].track_id

----------------------------------------------------------------------------
(* Properties of POST /analyze/image *)

\* C18: in the image pipeline the decision for a vehicle whose assigned
\* zone is a travel_lane has status in_transit: such a vehicle is not
\* evaluated for legality.
C18_TravelLaneInTransit ==
    Called("analyze_image") =>
        \A i \in 1..Len(image_response[1].zone_assignments) :
            LET a == image_response[1].zone_assignments[i]
            IN  (a.zone # None /\ a.zone[1].zone_type = "travel_lane")
                    => image_response[1].decisions[i].status = "in_transit"

\* the positions, in a list of zones, of those that have an area and
\* contain the point
Around(zone_list, point) ==
    {k \in 1..Len(zone_list) :
        /\ Len(zone_list[k].polygon) >= 3
        /\ PolygonContains(Polygon(zone_list[k].polygon), point)}

\* C22: in /analyze/image a detection whose ground point lies inside a
\* user-supplied zone is assigned a user-supplied zone, the first of them,
\* whatever lanes were detected in the image around that point, and its
\* decision is the one of evaluate_with_zone against that zone.
C22_UserZonesFirst ==
    Called("analyze_image") =>
        LET req == image_request[1]
            resp == image_response[1]
        IN  \A i \in 1..Len(resp.detections) :
                LET user == Around(req.zones, GroundPoint(resp.detections[i]))
                IN  user # {} =>
                        \E k \in user :
                            /\ \A j \in user : k <= j
                            /\ resp.zone_assignments[i].zone = <<req.zones[k]>>
                            /\ resp.decisions[i].track_id
                                   = resp.detections[i].detection_id
                            /\ resp.decisions[i] =
                                   evaluate_with_zone(rules, req.frame,
                                                      observations[i],
                                                      <<req.zones[k]>>)

\* a car inside the user's parking zone and inside a bus lane found in the
\* image: it is assigned the parking zone and is legal there
C22_Witness ==
    /\ Called("analyze_image")
    /\ \E i \in 1..Len(image_response[1].detections) :
           LET point == GroundPoint(image_response[1].detections[i])
               a == image_response[1].zone_assignments[i]
           IN  /\ Around(image_request[1].zones, point) # {}
               /\ Around(cv_image[1].lanes, point) # {}
               /\ cv_image[1].lanes[1].zone_type = "bus_lane"
               /\ a.vehicle_type = "passenger"
               /\ AssignedZoneType(a) = "parking"
               /\ image_response[1].decisions[i].status = "legal"

----------------------------------------------------------------------------
(* Properties of every decision of the engine *)

Returned == Called("evaluate") \/ Called("evaluate_with_zone")

----------------------------------------------------------------------------
(* Properties relating the two entry points *)

\* the zone is one for which the zone rules append no code
ZoneAppendsNoCode ==
    \/ ZoneTypeIs("parking")
    \/ ZoneTypeIs("double_parking")
    \/ ZoneTypeIs("bus_lane") /\ observation.vehicle_type = "bus"
    \/ ZoneTypeIs("bike_lane") /\ observation.vehicle_type = "bike"
    \/ /\ ZoneTypeIs("loading_zone")
       /\ ~(/\ observation.vehicle_type = "passenger"
            /\ observation.dwell_time_seconds > LimitFor("passenger"))

\* C24: for every frame and observation, the zone-aware derivation (suffix
\* _occupied, five critical codes) applied to the reason codes evaluate
\* returned gives the status and the confidence evaluate returned; and
\* evaluate_with_zone with a zone that appends no code returns the
\* decision of evaluate.
C24_DerivationsAgree ==
    /\ Called("evaluate") =>
           ZoneStatus(decision.reason_codes)
               = [status |-> decision.status,
                  confidence |-> decision.confidence]
    /\ (Called("evaluate_with_zone") /\ ZoneAppendsNoCode) =>
           decision = BaseDecision

\* a bike in a bike lane, with the bike lane as its zone: the only code is
\* bike_lane_occupied, which both suffixes match
C24_Witness ==
    /\ Called("evaluate_with_zone")
    /\ ZoneTypeIs("bike_lane")
    /\ observation.vehicle_type = "bike"
    /\ decision.reason_codes = <<Words_bike_lane_occupied>>
    /\ decision.status = "likely_illegal"
    /\ decision.confidence = 88
    /\ decision = BaseDecision

\* C26: with a zone of any type, the severity rank (legal < uncertain <
\* likely_illegal) of evaluate_with_zone's decision is at least the rank of
\* evaluate's decision for the same frame and observation: a base
\* likely_illegal at 0.92 stays likely_illegal at 0.92, a base
\* likely_illegal at 0.88 stays likely_illegal at 0.88 or 0.92, and a base
\* uncertain or legal decision does not become a lower-ranked one.
C26_AnyZoneNeverLowers ==
    (Called("evaluate_with_zone") /\ ZoneGiven) =>
        /\ Rank(decision.status) >= Rank(BaseDecision.status)
        /\ (BaseDecision.status = "likely_illegal"
                /\ BaseDecision.confidence = 92) =>
               (decision.status = "likely_illegal"
                    /\ decision.confidence = 92)
        /\ (BaseDecision.status = "likely_illegal"
                /\ BaseDecision.confidence = 88) =>
               (decision.status = "likely_illegal"
                    /\ decision.confidence \in {88, 92})

\* a passenger car overstaying in a bus lane, its zone a loading zone: the
\* overstay code is added and the decision stays likely_illegal at 0.88
C26_Witness ==
    /\ Called("evaluate_with_zone")
    /\ ZoneTypeIs("loading_zone")
    /\ BaseDecision.status = "likely_illegal"
    /\ BaseDecision.confidence = 88
    /\ HasCode(Words_loading_zone_passenger_overstay)
    /\ Len(decision.reason_codes) > Len(BaseDecision.reason_codes)
    /\ decision.status = "likely_illegal"
    /\ decision.confidence = 88

----------------------------------------------------------------------------
(* Properties of concurrent POST /analyze/image requests *)

\* the zones of the request r: its user zones, then the lanes found in its
\* own image
OwnZones(r) ==
    image_calls[r].args.request.zones \o image_calls[r].args.image.lanes

HasAssigned(r) == image_calls[r].pc \in {"decide", "respond", "done"}

Responded(r) == image_calls[r].pc = "done"

\* the response to the request r handled alone
AloneImage(r) ==
    analyze_image(rules, image_calls[r].args.request, image_calls[r].args.image)

\* C25: the requests share one zone analyzer whose zone list each request
\* overwrites; under every interleaving of the requests at the await of the
\* image read, every zone in the assignments of a request is one of that
\* request's own zones, and its response, decisions included, is the one
\* of the request handled alone.
C25_RequestsSeeOwnZones ==
    \A r \in Requests :
        /\ HasAssigned(r) =>
               \A i \in 1..Len(image_calls[r].assignments[1]) :
                   LET a == image_calls[r].assignments[1][i]
                   IN  \/ a.zone = None
                       \/ \E k \in 1..Len(OwnZones(r)) :
                              a.zone = <<OwnZones(r)[k]>>
        /\ Responded(r) => image_calls[r].response = <<AloneImage(r)>>

\* two requests answered, each with a vehicle in one of its zones, the
\* zone list of the first overwritten by the second
C25_Witness ==
    /\ Responded(1)
    /\ Responded(2)
    /\ zones = OwnZones(2)
    /\ zones # OwnZones(1)
    /\ \E i \in 1..Len(image_calls[1].assignments[1]) :
           LET a == image_calls[1].assignments[1][i]
           IN  /\ a.zone # None
               /\ \A k \in 1..Len(zones) : a.zone # <<zones[k]>>
    /\ \E i \in 1..Len(image_calls[2].assignments[1]) :
           image_calls[2].assignments[1][i].zone # None

====
